---- MODULE Spec2Model ----
(***************************************************************************)
(* Model of backend/app.py: the delivery session kept in the module-level  *)
(* dict delivery_state, the four session endpoints, understand_speech, and *)
(* the background thread simulate_homeowner_response.  understand_speech   *)
(* has no access to shared state and is one step.  app.run serves every    *)
(* request in a                                                            *)
(* thread of its own and nothing in app.py takes a lock, so every          *)
(* subscript read or write of delivery_state is one atomic step and the    *)
(* steps of different threads interleave freely.  A step of a thread runs  *)
(* from one access of delivery_state up to the next; what a thread does    *)
(* between two accesses touches only its locals.  Variables and fields     *)
(* marked "history" only record what happened: no value of delivery_state  *)
(* and no response code depends on them.  Python strings are sequences of  *)
(* one-character strings.                                                  *)
(***************************************************************************)
EXTENDS Integers, Sequences, FiniteSets, TLC

\* ---- bounds of the model ------------------------------------------------
NumHandlers == 2      \* request threads that can be in flight at once
MaxSessions == 2      \* accepted StartDelivery calls in one run
NumOtps == 1          \* how many of randint's outcomes are explored

\* ---- program constants --------------------------------------------------
OtpLow == 1000
OtpHigh == 9999

Handlers == 1..NumHandlers
Sessions == 1..MaxSessions

\* ---- Python values ------------------------------------------------------
None == [t |-> "None"]
PyStr(s) == [t |-> "str", v |-> s]

DigitChars == <<"0", "1", "2", "3", "4", "5", "6", "7", "8", "9">>

RECURSIVE Str(_)
\* str(n) for an int n >= 0
Str(n) == IF n < 10 THEN <<DigitChars[n + 1]>>
          ELSE Str(n \div 10) \o <<DigitChars[(n % 10) + 1]>>

RECURSIVE Join(_, _)
\* sep.join(parts), parts a list of strings
Join(sep, parts) ==
  IF parts = <<>> THEN <<>>
  ELSE IF Len(parts) = 1 THEN parts[1]
  ELSE parts[1] \o sep \o Join(sep, Tail(parts))

\* list(s): the characters of s as a list of one-character strings
CharList(s) == [i \in 1..Len(s) |-> <<s[i]>>]

\* the digits joined by "... " without the closing "..."
SpokenOtp_NoTail(otp) == Join(<<".", ".", ".", " ">>, CharList(otp))

\* "... ".join(list(otp)) + "..."
SpokenOtp(otp) == Join(<<".", ".", ".", " ">>, CharList(otp)) \o <<".", ".", ".">>

\* the outcomes of random.randint(1000, 9999) that the model explores
RandInts == {n \in {1234 + 2345 * k : k \in 0..(NumOtps - 1)} : OtpLow <= n /\ n <= OtpHigh}

\* ---- request bodies -----------------------------------------------------
\* request.get_json(): None, a JSON object (a function from keys to strings)
\* or a JSON array
ObjBody(keys, val) == [t |-> "obj", keys |-> keys, val |-> val, items |-> <<>>]
NoBody == [t |-> "None", keys |-> {}, val |-> <<>>, items |-> <<>>]
ListBody(items) == [t |-> "list", keys |-> {}, val |-> <<>>, items |-> items]

Bodies ==
  { NoBody,
    ObjBody({}, <<>>),
    ObjBody({"company"}, [k \in {"company"} |-> "Acme"]),
    ObjBody({"info"}, [k \in {"info"} |-> "2 boxes"]),
    ObjBody({"company", "info"}, [k \in {"company", "info"} |-> ""]),
    ObjBody({"company", "info"},
            [k \in {"company", "info"} |-> IF k = "company" THEN "Acme" ELSE "2 boxes"]),
    ListBody(<<"company", "info">>) }

\* bool(data)
Truthy(data) ==
  CASE data.t = "None" -> FALSE
    [] data.t = "obj" -> data.keys # {}
    [] data.t = "list" -> data.items # <<>>

\* key in data
Contains(data, key) ==
  CASE data.t = "obj" -> key \in data.keys
    [] data.t = "list" -> \E i \in 1..Len(data.items) : data.items[i] = key
    [] OTHER -> FALSE

\* a validation that forgets the info field
MissingFields_CompanyOnly(data) ==
  ~Truthy(data) \/ ~Contains(data, "company")

\* not data or 'company' not in data or 'info' not in data
MissingFields(data) ==
  ~Truthy(data) \/ ~Contains(data, "company") \/ ~Contains(data, "info")

\* data['company'] raises TypeError on a list
SubscriptRaises(data) == data.t # "obj"

\* ---- speech understanding: configuration, bodies, upstream answers -------
\* os.environ.get("GEMINI_API_KEY"): unset or set
Keys == {None, PyStr(<<"k">>)}

\* not GEMINI_API_KEY
KeyMissing(key) == key = None \/ key.v = <<>>

SpeechBodies ==
  { NoBody,
    ObjBody({"raw_text"}, [k \in {"raw_text"} |-> "Amazon, a package"]),
    ListBody(<<"raw_text">>) }

\* not data or 'raw_text' not in data
MissingRawText(data) == ~Truthy(data) \/ ~Contains(data, "raw_text")

\* gemini_model.generate_content(prompt): it raises, or response.text is one
\* of these texts, written as sequences of tokens ("fence" is the three
\* backquotes of a code fence)
UpstreamRaises == <<"raise">>
UpstreamTexts ==
  { <<"{}">>,
    <<"fence json", "{}", "fence">>,
    <<"Sure!">> }
Upstream == {UpstreamRaises} \cup UpstreamTexts

\* response.text.strip() with both replace calls of line 92: the opening and
\* the closing code fence are removed
CleanText(text) == SelectSeq(text, LAMBDA tok : tok \notin {"fence json", "fence"})

\* json.loads(json_text) does not raise
JsonLoads(text) == text = <<"{}">>

\* ---- state --------------------------------------------------------------
VARIABLES
  delivery_state,   \* the module-level dict: status, otp, cancelled
  handlers,         \* the request threads in flight: endpoint, position, locals
  notifiers,        \* the simulate_homeowner_response threads, one per session
  response,         \* the response the last step sent, NoReply if it sent none
  otpBy,            \* history: the session whose notifier wrote delivery_state.otp
  lastAccepted,     \* history: the last accepted state-changing call
  armed,            \* history: a Cancel was refused at otp_ready and no call followed yet
  polled,           \* history: check_status answered otp_ready and no call followed yet
  GEMINI_API_KEY    \* the module-level constant read from the environment at import

vars == <<delivery_state, handlers, notifiers, response, otpBy, lastAccepted, armed, polled,
         GEMINI_API_KEY>>

Statuses == {"idle", "waiting_for_otp", "otp_ready", "completed"}

\* a free request thread.  otp is the local of speak_otp; seen (the status the
\* left operand of line 126 read), by (the session that generated that otp),
\* gen (the session a call began or cancelled), follow (the call directly
\* followed a refused Cancel) and polled (the call directly followed a
\* check_status that answered otp_ready) are history
IdleHandler ==
  [op |-> "none", pc |-> "idle", data |-> NoBody, otp |-> None, seen |-> "", by |-> 0,
   gen |-> 0, follow |-> FALSE, polled |-> FALSE]

\* a session's notifier thread with its arguments and its local otp; cancel
\* (was the session cancelled, and when) and handed (how often its otp was
\* given out) are history
NoNotifier ==
  [pc |-> "none", company |-> "", info |-> "", otp |-> None, cancel |-> "no", handed |-> 0]

\* jsonify(...), code: the fields of the JSON answer that differ between answers
Reply(op, code, data, status, spoken, follow) ==
  [op |-> op, code |-> code, data |-> data, status |-> status, spoken |-> spoken,
   follow |-> follow]

NoReply == Reply("none", 0, NoBody, "", <<>>, FALSE)

Init ==
  /\ delivery_state = [status |-> "idle", otp |-> None, cancelled |-> FALSE]
  /\ handlers = [h \in Handlers |-> IdleHandler]
  /\ notifiers = [g \in Sessions |-> NoNotifier]
  /\ response = NoReply
  /\ otpBy = 0
  /\ lastAccepted = "none"
  /\ armed = FALSE
  /\ polled = FALSE
  /\ GEMINI_API_KEY = PyStr(<<"k">>)

\* sessions begun so far; the newest is the current one
Begun == {g \in Sessions : notifiers[g].pc # "none"}
Current == Cardinality(Begun)

\* start_delivery threads that passed line 126's test or are still in it
Deciding == {h \in Handlers : handlers[h].pc \in {"start_if2", "start_status"}}

\* A request arrives at thread h and runs up to its first access of
\* delivery_state; upd is the thread after that access.  History: any arrival
\* ends the window after a refused Cancel; a speak_otp arriving in the window is
\* "the following RetrieveOtp" (follow) for as long as no other call arrives,
\* and likewise (polled) for the window after a poll that answered otp_ready.
Arrive(h, upd) ==
  [k \in Handlers |->
     IF k = h THEN [upd EXCEPT !.follow = (upd.op = "speak" /\ armed),
                               !.polled = (upd.op = "speak" /\ polled)]
     ELSE [handlers[k] EXCEPT !.follow = FALSE, !.polled = FALSE]]

\* thread h sends its response and ends
Finish(h) == [handlers EXCEPT ![h] = IdleHandler]

\* ---- start_delivery (lines 115-136) -------------------------------------
\* lines 119-126: the body is validated (400 when a field is missing; a body
\* that cannot be subscripted raises, 500), then the left operand of line 126
\* reads delivery_state["status"] == "idle"
StartDelivery(h, data) ==
  /\ handlers[h].op = "none"
  /\ IF MissingFields(data)
       THEN /\ handlers' = Arrive(h, IdleHandler)
            /\ response' = Reply("start", 400, data, "", <<>>, FALSE)
     ELSE IF SubscriptRaises(data)
       THEN /\ handlers' = Arrive(h, IdleHandler)
            /\ response' = Reply("start", 500, data, "", <<>>, FALSE)
     ELSE /\ Current + Cardinality(Deciding) < MaxSessions
          /\ handlers' = Arrive(h,
               [IdleHandler EXCEPT !.op = "start", !.data = data,
                  !.seen = delivery_state.status,
                  !.pc = IF delivery_state.status = "idle" THEN "start_status" ELSE "start_if2"])
          /\ response' = NoReply
  /\ armed' = FALSE
  /\ polled' = FALSE
  /\ UNCHANGED <<delivery_state, notifiers, otpBy, lastAccepted, GEMINI_API_KEY>>

\* a refusal that also clears the stored otp
StartIf2_Clearing(h) ==
  /\ handlers[h].pc = "start_if2"
  /\ IF delivery_state.status = "completed"
       THEN /\ handlers' = [handlers EXCEPT ![h] = [@ EXCEPT !.pc = "start_status"]]
            /\ response' = NoReply
            /\ delivery_state' = delivery_state
       ELSE /\ handlers' = Finish(h)
            /\ response' = Reply("start", 409, handlers[h].data, "", <<>>, FALSE)
            /\ delivery_state' = [delivery_state EXCEPT !.otp = None]
  /\ UNCHANGED <<notifiers, otpBy, lastAccepted, armed, polled, GEMINI_API_KEY>>

\* line 126, right operand: delivery_state["status"] == "completed"; else line 136
StartIf2(h) ==
  /\ handlers[h].pc = "start_if2"
  /\ IF delivery_state.status = "completed"
       THEN /\ handlers' = [handlers EXCEPT ![h] = [@ EXCEPT !.pc = "start_status"]]
            /\ response' = NoReply
       ELSE /\ handlers' = Finish(h)
            /\ response' = Reply("start", 409, handlers[h].data, "", <<>>, FALSE)
  /\ UNCHANGED <<delivery_state, notifiers, otpBy, lastAccepted, armed, polled, GEMINI_API_KEY>>

\* line 127: delivery_state["status"] = "waiting_for_otp"; a new session begins
StartStatus(h) ==
  /\ handlers[h].pc = "start_status"
  /\ delivery_state' = [delivery_state EXCEPT !.status = "waiting_for_otp"]
  /\ handlers' = [handlers EXCEPT ![h] = [@ EXCEPT !.pc = "start_otp", !.gen = Current + 1]]
  /\ notifiers' = [notifiers EXCEPT ![Current + 1] = [@ EXCEPT !.pc = "pending"]]
  /\ lastAccepted' = IF lastAccepted \in {"start", "start2"} THEN "start2" ELSE "start"
  /\ response' = NoReply
  /\ UNCHANGED <<otpBy, armed, polled, GEMINI_API_KEY>>

\* line 128: delivery_state["otp"] = None
StartOtp(h) ==
  /\ handlers[h].pc = "start_otp"
  /\ delivery_state' = [delivery_state EXCEPT !.otp = None]
  /\ otpBy' = 0
  /\ handlers' = [handlers EXCEPT ![h] = [@ EXCEPT !.pc = "start_cancelled"]]
  /\ response' = NoReply
  /\ UNCHANGED <<notifiers, lastAccepted, armed, polled, GEMINI_API_KEY>>

\* line 129: delivery_state["cancelled"] = False
StartCancelled(h) ==
  /\ handlers[h].pc = "start_cancelled"
  /\ delivery_state' = [delivery_state EXCEPT !.cancelled = FALSE]
  /\ handlers' = [handlers EXCEPT ![h] = [@ EXCEPT !.pc = "start_thread"]]
  /\ response' = NoReply
  /\ UNCHANGED <<notifiers, otpBy, lastAccepted, armed, polled, GEMINI_API_KEY>>

\* lines 131-134: the notifier thread is started with (company, info); 200
StartThread(h) ==
  /\ handlers[h].pc = "start_thread"
  /\ notifiers' = [notifiers EXCEPT ![handlers[h].gen] =
       [@ EXCEPT !.pc = "sleep",
                 !.company = handlers[h].data.val["company"],
                 !.info = handlers[h].data.val["info"]]]
  /\ handlers' = Finish(h)
  /\ response' = Reply("start", 200, handlers[h].data, "", <<>>, FALSE)
  /\ UNCHANGED <<delivery_state, otpBy, lastAccepted, armed, polled, GEMINI_API_KEY>>

\* ---- check_status (lines 138-142) ---------------------------------------
\* a poll that puts a completed session back to idle
CheckStatus_Resetting(h) ==
  /\ handlers[h].op = "none"
  /\ handlers' = Arrive(h, IdleHandler)
  /\ response' = Reply("check", 200, NoBody, delivery_state.status, <<>>, FALSE)
  /\ armed' = FALSE
  /\ delivery_state' = IF delivery_state.status = "completed"
                         THEN [delivery_state EXCEPT !.status = "idle"]
                         ELSE delivery_state
  /\ polled' = /\ delivery_state.status = "otp_ready"
               /\ \A k \in Handlers : handlers[k].op = "none"
  /\ UNCHANGED <<notifiers, otpBy, lastAccepted, GEMINI_API_KEY>>

\* line 142: return jsonify({"status": delivery_state["status"]}), 200
CheckStatus(h) ==
  /\ handlers[h].op = "none"
  /\ handlers' = Arrive(h, IdleHandler)
  /\ response' = Reply("check", 200, NoBody, delivery_state.status, <<>>, FALSE)
  /\ armed' = FALSE
  /\ polled' = /\ delivery_state.status = "otp_ready"
               /\ \A k \in Handlers : handlers[k].op = "none"
  /\ UNCHANGED <<delivery_state, notifiers, otpBy, lastAccepted, GEMINI_API_KEY>>

\* ---- speak_otp (lines 144-155) ------------------------------------------
\* line 148, left operand: delivery_state["status"] == "otp_ready"; else line 155
SpeakOtp(h) ==
  /\ handlers[h].op = "none"
  /\ IF delivery_state.status = "otp_ready"
       THEN /\ handlers' = Arrive(h, [IdleHandler EXCEPT !.op = "speak", !.pc = "speak_if2"])
            /\ response' = NoReply
       ELSE /\ handlers' = Arrive(h, IdleHandler)
            /\ response' = Reply("speak", 404, NoBody, "", <<>>, armed)
  /\ armed' = FALSE
  /\ polled' = FALSE
  /\ UNCHANGED <<delivery_state, notifiers, otpBy, lastAccepted, GEMINI_API_KEY>>

\* line 148, right operand: delivery_state["otp"] is not None; else line 155
SpeakIf2(h) ==
  /\ handlers[h].pc = "speak_if2"
  /\ IF delivery_state.otp # None
       THEN /\ handlers' = [handlers EXCEPT ![h] = [@ EXCEPT !.pc = "speak_read"]]
            /\ response' = NoReply
       ELSE /\ handlers' = Finish(h)
            /\ response' = Reply("speak", 404, NoBody, "", <<>>, handlers[h].follow)
  /\ UNCHANGED <<delivery_state, notifiers, otpBy, lastAccepted, armed, polled, GEMINI_API_KEY>>

\* lines 149-150: otp = delivery_state["otp"]; list(otp) raises TypeError on
\* None, which the framework answers with 500
SpeakRead(h) ==
  /\ handlers[h].pc = "speak_read"
  /\ IF delivery_state.otp = None
       THEN /\ handlers' = Finish(h)
            /\ response' = Reply("speak", 500, NoBody, "", <<>>, handlers[h].follow)
       ELSE /\ handlers' = [handlers EXCEPT ![h] =
                 [@ EXCEPT !.otp = delivery_state.otp, !.by = otpBy, !.pc = "speak_status"]]
            /\ response' = NoReply
  /\ UNCHANGED <<delivery_state, notifiers, otpBy, lastAccepted, armed, polled, GEMINI_API_KEY>>

\* lines 150-153: spoken_otp is built, delivery_state["status"] = "completed"; 200
SpeakStatus(h) ==
  /\ handlers[h].pc = "speak_status"
  /\ delivery_state' = [delivery_state EXCEPT !.status = "completed"]
  /\ handlers' = Finish(h)
  /\ response' = Reply("speak", 200, NoBody, "", SpokenOtp(handlers[h].otp.v), handlers[h].follow)
  /\ notifiers' = [notifiers EXCEPT ![handlers[h].by] =
       [@ EXCEPT !.handed = IF @ < 2 THEN @ + 1 ELSE 2]]
  /\ lastAccepted' = "retrieve"
  /\ UNCHANGED <<otpBy, armed, polled, GEMINI_API_KEY>>

\* ---- cancel_delivery (lines 158-168) ------------------------------------
\* line 162: delivery_state["status"] == "waiting_for_otp"; else line 168
CancelDelivery(h) ==
  /\ handlers[h].op = "none"
  /\ IF delivery_state.status = "waiting_for_otp"
       THEN /\ handlers' = Arrive(h,
                 [IdleHandler EXCEPT !.op = "cancel", !.pc = "cancel_status", !.gen = Current])
            /\ response' = NoReply
       ELSE /\ handlers' = Arrive(h, IdleHandler)
            /\ response' = Reply("cancel", 400, NoBody, "", <<>>, FALSE)
  /\ armed' = /\ delivery_state.status = "otp_ready"
              /\ \A k \in Handlers : handlers[k].op = "none"
  /\ polled' = FALSE
  /\ UNCHANGED <<delivery_state, notifiers, otpBy, lastAccepted, GEMINI_API_KEY>>

\* line 163: delivery_state["status"] = "idle"
CancelStatus(h) ==
  /\ handlers[h].pc = "cancel_status"
  /\ delivery_state' = [delivery_state EXCEPT !.status = "idle"]
  /\ handlers' = [handlers EXCEPT ![h] = [@ EXCEPT !.pc = "cancel_cancelled"]]
  /\ lastAccepted' = "cancel"
  /\ response' = NoReply
  /\ UNCHANGED <<notifiers, otpBy, armed, polled, GEMINI_API_KEY>>

\* lines 164-166: delivery_state["cancelled"] = True; 200.  History: the session
\* the call cancelled, and whether its notifier was still in its delay
CancelCancelled(h) ==
  /\ handlers[h].pc = "cancel_cancelled"
  /\ delivery_state' = [delivery_state EXCEPT !.cancelled = TRUE]
  /\ handlers' = Finish(h)
  /\ response' = Reply("cancel", 200, NoBody, "", <<>>, FALSE)
  /\ notifiers' = [notifiers EXCEPT ![handlers[h].gen] =
       [@ EXCEPT !.cancel = IF @ = "early" \/ notifiers[handlers[h].gen].pc \in {"pending", "sleep"}
                              THEN "early" ELSE "late"]]
  /\ UNCHANGED <<otpBy, lastAccepted, armed, polled, GEMINI_API_KEY>>

\* ---- understand_speech (lines 59-112) -------------------------------------
\* the answer's JSON "status" and its code
SpeechReply(status, code) == Reply("understand", code, NoBody, status, <<>>, FALSE)

\* the inputs the call does not get to read are pinned: without a key the
\* body is not parsed (line 65), without raw_text the upstream is not called
Unread(data, out) ==
  /\ KeyMissing(GEMINI_API_KEY) => data = NoBody
  /\ (KeyMissing(GEMINI_API_KEY) \/ MissingRawText(data) \/ SubscriptRaises(data))
       => out = UpstreamRaises

\* a failure that also puts the session back to its initial state
UnderstandSpeech_Resetting(data, out) ==
  /\ \E h \in Handlers : handlers[h].op = "none"
  /\ Unread(data, out)
  /\ IF KeyMissing(GEMINI_API_KEY)
       THEN response' = SpeechReply("error", 500) /\ delivery_state' = delivery_state
     ELSE IF MissingRawText(data)
       THEN response' = SpeechReply("error", 400) /\ delivery_state' = delivery_state
     ELSE IF SubscriptRaises(data) \/ out = UpstreamRaises \/ ~JsonLoads(CleanText(out))
       THEN /\ response' = SpeechReply("error", 500)
            /\ delivery_state' = [status |-> "idle", otp |-> None, cancelled |-> FALSE]
     ELSE response' = SpeechReply("ok", 200) /\ delivery_state' = delivery_state
  /\ UNCHANGED <<handlers, notifiers, otpBy, lastAccepted, armed, polled,
                 GEMINI_API_KEY>>

\* lines 65-112 in one step of a free request thread, the function touches no
\* shared state but the key: 500 without a key, 400 without raw_text, 500 when
\* data['raw_text'] raises (line 72, outside the try), 500 when the upstream
\* call raises or its cleaned text is not JSON (lines 88-112), else 200
UnderstandSpeech(data, out) ==
  /\ \E h \in Handlers : handlers[h].op = "none"
  /\ Unread(data, out)
  /\ IF KeyMissing(GEMINI_API_KEY)
       THEN response' = SpeechReply("error", 500)
     ELSE IF MissingRawText(data)
       THEN response' = SpeechReply("error", 400)
     ELSE IF SubscriptRaises(data) \/ out = UpstreamRaises \/ ~JsonLoads(CleanText(out))
       THEN response' = SpeechReply("error", 500)
     ELSE response' = SpeechReply("ok", 200)
  /\ UNCHANGED <<delivery_state, handlers, notifiers, otpBy, lastAccepted, armed, polled,
                 GEMINI_API_KEY>>

\* ---- simulate_homeowner_response (lines 34-56) --------------------------
\* lines 47-53: time.sleep(5) ends; delivery_state.get("cancelled", False) is
\* read; if set the thread returns, else otp = str(random.randint(1000, 9999))
Wake(g, n) ==
  /\ notifiers[g].pc = "sleep"
  /\ notifiers' = [notifiers EXCEPT ![g] =
       IF delivery_state.cancelled
         THEN [@ EXCEPT !.pc = "aborted"]
         ELSE [@ EXCEPT !.pc = "notify_status", !.otp = PyStr(Str(n))]]
  /\ response' = NoReply
  /\ UNCHANGED <<delivery_state, handlers, otpBy, lastAccepted, armed, polled, GEMINI_API_KEY>>

\* line 54: delivery_state["status"] = "otp_ready"
NotifyStatus(g) ==
  /\ notifiers[g].pc = "notify_status"
  /\ delivery_state' = [delivery_state EXCEPT !.status = "otp_ready"]
  /\ notifiers' = [notifiers EXCEPT ![g] = [@ EXCEPT !.pc = "notify_otp"]]
  /\ response' = NoReply
  /\ UNCHANGED <<handlers, otpBy, lastAccepted, armed, polled, GEMINI_API_KEY>>

\* line 55: delivery_state["otp"] = otp
NotifyOtp(g) ==
  /\ notifiers[g].pc = "notify_otp"
  /\ delivery_state' = [delivery_state EXCEPT !.otp = notifiers[g].otp]
  /\ otpBy' = g
  /\ notifiers' = [notifiers EXCEPT ![g] = [@ EXCEPT !.pc = "done"]]
  /\ response' = NoReply
  /\ UNCHANGED <<handlers, lastAccepted, armed, polled, GEMINI_API_KEY>>

\* ---- the system ---------------------------------------------------------
Next ==
  \/ \E h \in Handlers, data \in Bodies : StartDelivery(h, data)
  \/ \E h \in Handlers : StartIf2(h)
  \/ \E h \in Handlers : StartStatus(h)
  \/ \E h \in Handlers : StartOtp(h)
  \/ \E h \in Handlers : StartCancelled(h)
  \/ \E h \in Handlers : StartThread(h)
  \/ \E h \in Handlers : CheckStatus(h)
  \/ \E h \in Handlers : SpeakOtp(h)
  \/ \E h \in Handlers : SpeakIf2(h)
  \/ \E h \in Handlers : SpeakRead(h)
  \/ \E h \in Handlers : SpeakStatus(h)
  \/ \E h \in Handlers : CancelDelivery(h)
  \/ \E h \in Handlers : CancelStatus(h)
  \/ \E h \in Handlers : CancelCancelled(h)
  \/ \E data \in SpeechBodies, out \in Upstream : UnderstandSpeech(data, out)
  \/ \E g \in Sessions, n \in RandInts : Wake(g, n)
  \/ \E g \in Sessions : NotifyStatus(g)
  \/ \E g \in Sessions : NotifyOtp(g)

Spec == Init /\ [][Next]_vars

\* ---- one session, with or without the key --------------------------------
\* the body of the accepted start_delivery
StartedBody ==
  ObjBody({"company", "info"},
          [k \in {"company", "info"} |-> IF k = "company" THEN "Acme" ELSE "2 boxes"])

\* the state in which the first start_delivery has just answered 200 (line
\* 134), for either outcome of os.environ.get at line 13
InitStarted ==
  /\ delivery_state = [status |-> "waiting_for_otp", otp |-> None, cancelled |-> FALSE]
  /\ handlers = [h \in Handlers |-> IdleHandler]
  /\ notifiers = [g \in Sessions |->
       IF g = 1 THEN [NoNotifier EXCEPT !.pc = "sleep", !.company = "Acme", !.info = "2 boxes"]
       ELSE NoNotifier]
  /\ response = Reply("start", 200, StartedBody, "", <<>>, FALSE)
  /\ otpBy = 0
  /\ lastAccepted = "start"
  /\ armed = FALSE
  /\ polled = FALSE
  /\ GEMINI_API_KEY \in Keys

\* every call but a further POST /start-delivery, and the notifier
NextOneSession ==
  \/ \E h \in Handlers : CheckStatus(h)
  \/ \E h \in Handlers : SpeakOtp(h)
  \/ \E h \in Handlers : SpeakIf2(h)
  \/ \E h \in Handlers : SpeakRead(h)
  \/ \E h \in Handlers : SpeakStatus(h)
  \/ \E h \in Handlers : CancelDelivery(h)
  \/ \E h \in Handlers : CancelStatus(h)
  \/ \E h \in Handlers : CancelCancelled(h)
  \/ \E data \in SpeechBodies, out \in Upstream : UnderstandSpeech(data, out)
  \/ \E g \in Sessions, n \in RandInts : Wake(g, n)
  \/ \E g \in Sessions : NotifyStatus(g)
  \/ \E g \in Sessions : NotifyOtp(g)

SpecOneSession == InitStarted /\ [][NextOneSession]_vars

\* ---- speak_otp over every otp the notifier can generate ------------------
\* the state after one accepted start_delivery whose notifier has run to its
\* end, for every outcome n of random.randint(1000, 9999)
InitReady ==
  \E n \in OtpLow..OtpHigh :
    /\ delivery_state = [status |-> "otp_ready", otp |-> PyStr(Str(n)), cancelled |-> FALSE]
    /\ handlers = [h \in Handlers |-> IdleHandler]
    /\ notifiers = [g \in Sessions |->
         IF g = 1 THEN [NoNotifier EXCEPT !.pc = "done", !.company = "Acme",
                                          !.info = "2 boxes", !.otp = PyStr(Str(n))]
         ELSE NoNotifier]
    /\ response = NoReply
    /\ otpBy = 1
    /\ lastAccepted = "start"
    /\ armed = FALSE
    /\ polled = FALSE
    /\ GEMINI_API_KEY = PyStr(<<"k">>)

\* the calls of GET /speak-otp
NextSpeak ==
  \/ \E h \in Handlers : SpeakOtp(h)
  \/ \E h \in Handlers : SpeakIf2(h)
  \/ \E h \in Handlers : SpeakRead(h)
  \/ \E h \in Handlers : SpeakStatus(h)

SpecSpoken == InitReady /\ [][NextSpeak]_vars

\* ---- the session state machine ------------------------------------------
\* the edges of the documented state machine
Edges ==
  { <<"idle", "waiting_for_otp">>, <<"waiting_for_otp", "otp_ready">>,
    <<"waiting_for_otp", "idle">>, <<"otp_ready", "completed">>,
    <<"completed", "waiting_for_otp">> }

\* C1: status changes only along the edges idle->waiting_for_otp,
\* waiting_for_otp->otp_ready, waiting_for_otp->idle, otp_ready->completed and
\* completed->waiting_for_otp, whatever the calls and their interleaving.
C1_StatusEdges ==
  [][delivery_state'.status # delivery_state.status
       => <<delivery_state.status, delivery_state'.status>> \in Edges]_vars

\* C2: of two StartDelivery calls with no Cancel or RetrieveOtp accepted between
\* them, only one is accepted: two Starts are never accepted in a row.
C2_OneStartAccepted == lastAccepted # "start2"

\* C3: the notifier of a session whose Cancel was answered 200 while the
\* notifier was still in its delay never sets status to otp_ready nor writes
\* an otp.
C3_NoResurrection ==
  \A g \in Sessions :
    notifiers[g].cancel = "early" => notifiers[g].pc \notin {"notify_otp", "done"}

\* C4: the otp a notifier generated is carried by at most one 200 response of
\* RetrieveOtp.
C4_OtpHandedOnce == \A g \in Sessions : notifiers[g].handed <= 1

\* C5: once RetrieveOtp has succeeded, status stays completed until a new
\* StartDelivery is accepted.
C5_CompletedUntilStart == lastAccepted = "retrieve" => delivery_state.status = "completed"

\* C6: after a Cancel refused while status is otp_ready, the RetrieveOtp that
\* follows it is answered 200 with the otp.
C6_RetrieveAfterRefusedCancel ==
  (response.op = "speak" /\ response.follow) => response.code = 200

\* every thread has ended
Quiescent ==
  /\ \A h \in Handlers : handlers[h].op = "none"
  /\ \A g \in Sessions : notifiers[g].pc \in {"none", "aborted", "done"}

\* C7: a session whose Start was accepted and for which no Cancel was accepted
\* reaches otp_ready: once every thread has ended, the current session, if not
\* cancelled, is not left waiting_for_otp.
C7_HappyPathResolves ==
  (Quiescent /\ Current > 0 /\ notifiers[Current].cancel = "no")
    => delivery_state.status # "waiting_for_otp"

\* C8: a StartDelivery with a valid body is accepted only on a status of idle or
\* completed, and answered 409 only when status was waiting_for_otp or otp_ready
\* at one of the two tests of line 126.
C8_StartGuard ==
  [][\A h \in Handlers :
       /\ (handlers[h].pc # "start_status" /\ handlers'[h].pc = "start_status")
            => delivery_state.status \in {"idle", "completed"}
       /\ (handlers[h].pc = "start_if2" /\ handlers'[h].op = "none")
            => \/ handlers[h].seen \in {"waiting_for_otp", "otp_ready"}
               \/ delivery_state.status \in {"waiting_for_otp", "otp_ready"}]_vars

\* ---- validation of StartDelivery ----------------------------------------
\* the body is a JSON object that has both keys
HasBothFields(data) == data.t = "obj" /\ {"company", "info"} \subseteq data.keys

\* C9 as stated: a StartDelivery is accepted only if company and info are
\* present and non-empty.
C9_NonEmptyRequired ==
  (response.op = "start" /\ response.code = 200)
    => response.data.val["company"] # "" /\ response.data.val["info"] # ""

\* C9 as amended: a StartDelivery whose body is absent, an empty object or an
\* object without the company or the info key is answered 400, whatever the
\* status, leaving delivery_state alone and starting no notifier; only a body
\* with both keys gets past the validation (the values may be empty).
C9_PresenceValidated ==
  [][/\ \A h \in Handlers :
          (handlers[h].op = "none" /\ handlers'[h].op = "start")
            => HasBothFields(handlers'[h].data)
     /\ (response'.op = "start" /\ response'.data.t \in {"None", "obj"}
           /\ ~HasBothFields(response'.data))
          => response'.code = 400
     /\ (response'.op = "start" /\ response'.code = 400)
          => /\ ~HasBothFields(response'.data)
             /\ delivery_state' = delivery_state
             /\ notifiers' = notifiers]_vars

\* a body without info was answered 400 while a session was at otp_ready
C9_Witness ==
  /\ response.op = "start" /\ response.code = 400
  /\ response.data.t = "obj" /\ response.data.keys = {"company"}
  /\ delivery_state.status = "otp_ready"

\* ---- polling --------------------------------------------------------------
\* C10: CheckStatus answers 200 with the value status has at that moment, one
\* of the four status values, and changes neither delivery_state nor any
\* thread.
C10_CheckStatusPure ==
  [][response'.op = "check"
       => /\ response'.code = 200
          /\ response'.status = delivery_state.status
          /\ response'.status \in Statuses
          /\ delivery_state' = delivery_state
          /\ notifiers' = notifiers
          /\ \A h \in Handlers :
               /\ handlers'[h].op = handlers[h].op
               /\ handlers'[h].pc = handlers[h].pc
               /\ handlers'[h].data = handlers[h].data
               /\ handlers'[h].otp = handlers[h].otp]_vars

\* a poll answered otp_ready while another request was being handled
C10_Witness ==
  /\ response.op = "check" /\ response.status = "otp_ready"
  /\ \E h \in Handlers : handlers[h].op = "speak"

\* ---- notifier against cancel and later sessions ---------------------------
\* the notifier of session g has executed line 54
Applied(g) == notifiers[g].pc \in {"notify_otp", "done"}

\* C13: for one session the notifier's resolution and an accepted Cancel exclude
\* each other: no session has both a Cancel answered 200 and a notifier that set
\* status to otp_ready.
C13_CancelExcludesResolve ==
  \A g \in Sessions : ~(notifiers[g].cancel # "no" /\ Applied(g))

\* C14: a notifier does not write delivery_state once its session was cancelled
\* or completed and a later Start has been accepted.
C14_StaleResolutionDropped ==
  [][\A g \in Sessions :
       (/\ notifiers[g].pc \in {"notify_status", "notify_otp"}
        /\ notifiers'[g].pc # notifiers[g].pc
        /\ g < Current)
         => (notifiers[g].cancel = "no" /\ notifiers[g].handed = 0)]_vars

\* C15: otp is set exactly when status is otp_ready.
C15_OtpIffReady ==
  (delivery_state.otp # None) <=> (delivery_state.status = "otp_ready")

\* C16: the notifier of a session aborts only if a Cancel was accepted for that
\* same session.
C16_CancelStaysInSession ==
  \A g \in Sessions : notifiers[g].pc = "aborted" => notifiers[g].cancel # "no"

\* notifier threads started and not yet ended
Outstanding == {g \in Sessions : notifiers[g].pc \in {"sleep", "notify_status", "notify_otp"}}

\* C17: at most one notifier thread is outstanding.
C17_OneNotifier == Cardinality(Outstanding) <= 1

\* C19: while the cancelled flag is set, status is idle.
C19_CancelledMeansIdle ==
  delivery_state.cancelled => delivery_state.status = "idle"

\* ---- polling before retrieval --------------------------------------------
\* C18: a RetrieveOtp that directly follows a CheckStatus answered otp_ready
\* (no other call arrived in between or while it ran) is answered 200,
\* wherever the notifier stands between its two writes.
C18_ReadyIsRetrievable ==
  [][/\ (/\ polled
         /\ response'.op = "speak"
         /\ \A h \in Handlers : handlers'[h].pc = handlers[h].pc)
          => response'.code = 200
     /\ \A h \in Handlers :
          (handlers[h].op = "speak" /\ handlers[h].polled /\ handlers'[h].op = "none")
            => response'.code = 200]_vars

\* ---- refused calls ------------------------------------------------------
\* a Start answered 409, a RetrieveOtp answered 404, a Cancel answered 400
Refused(r) ==
  \/ r.op = "start" /\ r.code = 409
  \/ r.op = "speak" /\ r.code = 404
  \/ r.op = "cancel" /\ r.code = 400

\* C20: a refused Start (409), RetrieveOtp (404) or Cancel (400) leaves status,
\* otp and cancelled as they were and starts no notifier: the step that sends
\* the refusal writes nothing, the thread that sends it had only evaluated its
\* endpoint's condition, and reaching that condition wrote nothing either.
C20_RefusalsLeaveState ==
  [][/\ Refused(response') =>
          /\ delivery_state' = delivery_state
          /\ \A g \in Sessions : notifiers'[g].pc = notifiers[g].pc
          /\ \A h \in Handlers :
               (handlers[h].op # "none" /\ handlers'[h].op = "none")
                 => handlers[h].pc \in {"start_if2", "speak_if2"}
     /\ \A h \in Handlers :
          (handlers'[h].pc \in {"start_if2", "speak_if2"} /\ handlers[h].pc # handlers'[h].pc)
            => (/\ handlers[h].op = "none"
                /\ delivery_state' = delivery_state
                /\ \A g \in Sessions : notifiers'[g].pc = notifiers[g].pc)]_vars

C20_Witness ==
  /\ response.op = "start" /\ response.code = 409
  /\ delivery_state.status = "waiting_for_otp"
  /\ \E g \in Sessions : notifiers[g].pc = "sleep"

\* ---- speech understanding and the session ---------------------------------
\* C11: understand_speech neither reads nor writes the session: whatever it
\* answers (200, 400 or 500), status, otp and cancelled are unchanged, no
\* notifier is started and no request in flight is disturbed.
C11_UnderstandLeavesSession ==
  [][response'.op = "understand" =>
       /\ delivery_state' = delivery_state
       /\ notifiers' = notifiers
       /\ handlers' = handlers]_vars

C11_Witness ==
  /\ response.op = "understand" /\ response.code = 200
  /\ delivery_state.status = "otp_ready"
  /\ delivery_state.otp # None

\* ---- the spoken form ----------------------------------------------------
\* d1... d2... d3... d4... for the four characters of d
SpokenForm(d) ==
  <<d[1], ".", ".", ".", " ", d[2], ".", ".", ".", " ",
    d[3], ".", ".", ".", " ", d[4], ".", ".", ".">>

\* C12: a RetrieveOtp answered 200 returns, for the stored 4-digit otp d1d2d3d4,
\* the string "d1... d2... d3... d4..."; for "1234" it is "1... 2... 3... 4...".
C12_SpokenFormat ==
  (response.op = "speak" /\ response.code = 200) =>
    /\ Len(delivery_state.otp.v) = 4
    /\ \A i \in 1..4 : delivery_state.otp.v[i] \in {DigitChars[k] : k \in 1..10}
    /\ response.spoken = SpokenForm(delivery_state.otp.v)
    /\ delivery_state.otp.v = <<"1", "2", "3", "4">> =>
         response.spoken = <<"1", ".", ".", ".", " ", "2", ".", ".", ".", " ",
                             "3", ".", ".", ".", " ", "4", ".", ".", ".">>

C12_Witness ==
  /\ response.op = "speak" /\ response.code = 200
  /\ delivery_state.otp = PyStr(<<"1", "2", "3", "4">>)
  /\ delivery_state.status = "completed"

====
